---- MODULE Spec2Model ----
(***************************************************************************)
(* Model of src/langflow_agent.py: the ReplicateGranite component.         *)
(*                                                                         *)
(*   _extract_text  the structural text extractor (a pure function)        *)
(*   build_output   the job lifecycle driver: input checks, one creation   *)
(*                  request, the polling loop, finalization                *)
(*                                                                         *)
(* Python values are tagged records.  A str is a sequence of text          *)
(* fragments: the characters of free text one by one (so that strip,       *)
(* float and str act on them as the code does), and a known literal such   *)
(* as "succeeded" as a single fragment.  Numbers are integers: the time    *)
(* unit is one tick and JSON numbers are ints.                             *)
(***************************************************************************)
EXTENDS Integers, Sequences, FiniteSets, TLC

(***************************************************************************)
(* Python values                                                           *)
(***************************************************************************)
None == [t |-> "None"]

Str(s) == [t |-> "str", s |-> s]

Num(n) == [t |-> "int", n |-> n]

Bool(b) == [t |-> "bool", b |-> b]

List(xs) == [t |-> "list", items |-> xs]

\* a dict keeps its insertion order: a sequence of <<key, value>>, keys unique
Dict(ps) == [t |-> "dict", pairs |-> ps]

\* an f-string: its template and the values formatted into it.  Every
\* template of the source holds literal text, so the string is never empty.
FStr(fmt, args) == [t |-> "fstr", fmt |-> fmt, args |-> args]

\* Python truthiness: `if t:`, `not token`, `a or b`
Truthy(v) ==
  CASE v.t = "None" -> FALSE
    [] v.t = "str"  -> v.s # <<>>
    [] v.t = "int"  -> v.n # 0
    [] v.t = "bool" -> v.b
    [] v.t = "list" -> v.items # <<>>
    [] v.t = "dict" -> v.pairs # <<>>
    [] OTHER        -> TRUE

\* `a or b`
Or(a, b) == IF Truthy(a) THEN a ELSE b

Whitespace == {" ", "\t", "\n"}

RECURSIVE LStrip(_)
LStrip(s) == IF s # <<>> /\ Head(s) \in Whitespace THEN LStrip(Tail(s)) ELSE s

RECURSIVE RStrip(_)
RStrip(s) ==
  IF s # <<>> /\ s[Len(s)] \in Whitespace THEN RStrip(SubSeq(s, 1, Len(s) - 1)) ELSE s

\* lstrip() for strip(): trailing whitespace kept
Strip_LeftOnly(s) == LStrip(s)

\* str.strip()
Strip(s) == RStrip(LStrip(s))

Digit(d) == <<"0", "1", "2", "3", "4", "5", "6", "7", "8", "9">>[d + 1]

RECURSIVE NatStr(_)
NatStr(n) == IF n < 10 THEN <<Digit(n)>> ELSE NatStr(n \div 10) \o <<Digit(n % 10)>>

\* str(int): the decimal representation
IntStr(n) == IF n < 0 THEN <<"-">> \o NatStr(0 - n) ELSE NatStr(n)

\* str(bool): Python's literals
BoolStr(b) == IF b THEN <<"True">> ELSE <<"False">>

RECURSIVE PyRepr(_)
RECURSIVE ReprItems(_)
RECURSIVE ReprPairs(_)
\* repr(): what str() of a list or dict shows of its elements
PyRepr(v) ==
  CASE v.t = "None" -> <<"None">>
    [] v.t = "str"  -> <<"'">> \o v.s \o <<"'">>
    [] v.t = "int"  -> IntStr(v.n)
    [] v.t = "bool" -> BoolStr(v.b)
    [] v.t = "list" -> <<"[">> \o ReprItems(v.items) \o <<"]">>
    [] v.t = "dict" -> <<"{">> \o ReprPairs(v.pairs) \o <<"}">>
    [] OTHER        -> <<"'", v.fmt, "'">>

ReprItems(xs) ==
  IF xs = <<>> THEN <<>>
  ELSE PyRepr(Head(xs)) \o (IF Len(xs) > 1 THEN <<",", " ">> ELSE <<>>) \o ReprItems(Tail(xs))

ReprPairs(ps) ==
  IF ps = <<>> THEN <<>>
  ELSE <<"'", Head(ps)[1], "'", ":", " ">> \o PyRepr(Head(ps)[2])
       \o (IF Len(ps) > 1 THEN <<",", " ">> ELSE <<>>) \o ReprPairs(Tail(ps))

\* str(output)
PyStr(v) == IF v.t = "str" THEN v.s ELSE PyRepr(v)

\* key in d
HasKey(d, k) == \E i \in 1..Len(d.pairs) : d.pairs[i][1] = k

\* d[key]
Item(d, k) == d.pairs[CHOOSE i \in 1..Len(d.pairs) : d.pairs[i][1] = k][2]

\* d.get(key)
Get(d, k) == IF HasKey(d, k) THEN Item(d, k) ELSE None

\* d.values()
Values(d) == [i \in 1..Len(d.pairs) |-> d.pairs[i][2]]

\* reversed(output)
Reversed(xs) == [i \in 1..Len(xs) |-> xs[Len(xs) + 1 - i]]

(***************************************************************************)
(* _extract_text                                                           *)
(***************************************************************************)
\* a slip in the tuple of keys: caption moved to the front
PriorityKeys_CaptionFirst == <<"caption", "generated_text", "text", "content", "output">>

PriorityKeys == <<"generated_text", "text", "content", "output", "caption">>

RECURSIVE _extract_text(_)
RECURSIVE FirstTruthy(_)
RECURSIVE ProbeKeys(_, _)

\* `for item in xs: t = self._extract_text(item); if t: return t`, and None
\* when the loop ends
FirstTruthy(xs) ==
  IF xs = <<>> THEN None
  ELSE LET t == _extract_text(Head(xs))
       IN IF Truthy(t) THEN t ELSE FirstTruthy(Tail(xs))

\* `for key in keys: if key in output: t = ...; if t: return t`
ProbeKeys(output, keys) ==
  IF keys = <<>> THEN None
  ELSE LET t == IF HasKey(output, Head(keys))
                THEN _extract_text(Item(output, Head(keys))) ELSE None
       IN IF Truthy(t) THEN t ELSE ProbeKeys(output, Tail(keys))

\* the list branch without reversed(): the first element wins
ExtractList_Forward(output) == FirstTruthy(output.items)

\* the list branch
ExtractList(output) == FirstTruthy(Reversed(output.items))

\* the dict branch; it falls through to the last line when nothing is found
ExtractDict(output) ==
  LET p == ProbeKeys(output, PriorityKeys)
      v == FirstTruthy(Values(output))
  IN IF Truthy(p) THEN p
     ELSE IF Truthy(v) THEN v
     ELSE Str(PyStr(output))

_extract_text(output) ==
  CASE output.t = "None" -> None
    [] output.t = "str"  -> Str(Strip(output.s))
    [] output.t = "int"  -> Str(PyStr(output))
    [] output.t = "bool" -> Str(PyStr(output))
    [] output.t = "list" -> ExtractList(output)
    [] output.t = "dict" -> ExtractDict(output)
    [] OTHER             -> Str(PyStr(output))

(***************************************************************************)
(* build_output: its inputs, the service and the clock                     *)
(***************************************************************************)
\* the most status-fetch requests one modelled invocation makes
MaxPolls == 6

\* the most ticks a network call takes
MaxDelay == 1

Starting == Str(<<"starting">>)

Processing == Str(<<"processing">>)

Succeeded == Str(<<"succeeded">>)

Failed == Str(<<"failed">>)

\* values of self.replicate_api_token
TokenInputs == {None, Str(<<" ">>), Str(<<" ", "t", "k">>)}

\* values of os.getenv("REPLICATE_API_TOKEN"): None when unset
EnvInputs == {None, Str(<<" ">>), Str(<<"e", "n", "v">>)}

\* values of self.model_version
VersionInputs == {None, Str(<<" ">>), Str(<<"v", "1", " ">>)}

\* values of self.timeout_seconds
TimeoutInputs == {Str(<<"s", "o", "o", "n">>), Str(<<"0">>), Str(<<"4">>), Str(<<"5">>)}

\* values of self.poll_interval
PollInputs == {Str(<<>>), Str(<<"-", "1">>), Str(<<"0">>), Str(<<"2">>), Str(<<" ", "1", "0">>)}

\* a response: the transport raised ("exc"), or a status code with a body
\* that json() cannot parse ("raw": body is resp.text) or parses ("json":
\* body is the parsed value)
Resp(kind, code, body) == [kind |-> kind, code |-> code, body |-> body]

NoResp == Resp("none", 0, None)

\* the `output` of a succeeded job
Outputs ==
  { List(<<Str(<<"partial">>), Str(<<"final answer">>)>>),
    Str(<<" ">>),
    List(<<None, Str(<<>>)>>),
    Dict(<<<<"caption", Str(<<"x">>)>>, <<"text", Str(<<"y">>)>>>>) }

\* the `error` and `logs` a body may carry; None: the field is absent
ErrorFields == {None, Str(<<>>), Str(<<"out of memory">>)}

LogsFields == {None, Str(<<>>), Str(<<"loading weights">>)}

\* a body as the service sends it: the fields it carries, in its order
Body(id, st, out, err, logs) ==
  Dict( (IF id = None THEN <<>> ELSE << <<"id", id>> >>)
     \o (IF st = None THEN <<>> ELSE << <<"status", st>> >>)
     \o (IF out = None THEN <<>> ELSE << <<"output", out>> >>)
     \o (IF err = None THEN <<>> ELSE << <<"error", err>> >>)
     \o (IF logs = None THEN <<>> ELSE << <<"logs", logs>> >>) )

\* the error and logs of a job that is still running
PendingFields ==
  { <<None, None>>, <<None, Str(<<"loading weights">>)>>, <<Str(<<>>), Str(<<>>)>>,
    <<Str(<<"out of memory">>), Str(<<"loading weights">>)>> }

\* bodies of a job that is still running: no status, or a non-terminal one
PendingBodies(id, st) == { Body(id, s, None, f[1], f[2]) : s \in {None, st}, f \in PendingFields }

\* bodies of a job that has ended
TerminalBodies(id) ==
     { Body(id, Failed, None, e, l) : e \in ErrorFields, l \in LogsFields }
  \cup { Body(id, Succeeded, o, None, None) : o \in Outputs }
  \cup { Body(id, Succeeded, None, None, None) }

\* parseable bodies that are no mapping
NonMappings == {List(<<>>), None}

CreateResponses ==
     { Resp("exc", 0, None) }
  \cup { Resp("json", 422, Dict(<<<<"detail", Str(<<"bad version">>)>>>>)),
         Resp("raw", 500, Str(<<"<html>">>)),
         Resp("raw", 200, Str(<<"<html>">>)),
         Resp("json", 200, Dict(<<<<"status", Starting>>>>)),
         Resp("json", 201, Body(Str(<<>>), Starting, None, None, None)) }
  \cup { Resp("json", 200, b) : b \in NonMappings }
  \cup { Resp("json", 201, Body(Str(<<"abc">>), Starting, None, None, None)),
         Resp("json", 200, Body(Str(<<"abc">>), None, None, None, Str(<<"loading weights">>))),
         Resp("json", 200, Body(Str(<<"abc">>), Starting, None, Str(<<>>), Str(<<>>))) }
  \cup { Resp("json", 200, b) : b \in TerminalBodies(Str(<<"abc">>)) }

PollResponses ==
     { Resp("exc", 0, None),
       Resp("raw", 200, Str(<<"<html>">>)),
       Resp("json", 500, Dict(<<<<"detail", Str(<<"server error">>)>>>>)),
       Resp("json", 201, Body(None, Succeeded, Str(<<"late">>), None, None)) }
  \cup { Resp("json", 200, b) : b \in NonMappings }
  \cup { Resp("json", 200, b) : b \in PendingBodies(None, Processing) \cup TerminalBodies(None) }

(***************************************************************************)
(* float()                                                                 *)
(***************************************************************************)
Digits == {"0", "1", "2", "3", "4", "5", "6", "7", "8", "9"}

DigitVal(c) == CHOOSE d \in 0..9 : Digit(d) = c

RECURSIVE DigitsVal(_)
DigitsVal(s) ==
  IF s = <<>> THEN 0 ELSE 10 * DigitsVal(SubSeq(s, 1, Len(s) - 1)) + DigitVal(s[Len(s)])

IsDigits(s) == s # <<>> /\ \A i \in 1..Len(s) : s[i] \in Digits

Unsigned(s) == IF s # <<>> /\ Head(s) \in {"-", "+"} THEN Tail(s) ELSE s

\* whether float(v) returns: a str of an optional sign and digits, with
\* whitespace around it, or a number
FloatOk(v) ==
  \/ v.t = "int"
  \/ v.t = "str" /\ IsDigits(Unsigned(Strip(v.s)))

\* what float(v) returns
Float(v) ==
  IF v.t = "int" THEN v.n
  ELSE LET s == Strip(v.s)
       IN IF Head(s) = "-" THEN 0 - DigitsVal(Unsigned(s)) ELSE DigitsVal(Unsigned(s))

\* the fallback giving 0 for the default
FloatOr_Zero(raw, default) == IF FloatOk(raw) THEN Float(raw) ELSE 0

\* try: x = float(raw) / except Exception: x = default
FloatOr(raw, default) == IF FloatOk(raw) THEN Float(raw) ELSE default

DefaultTimeout == 90

DefaultPollInterval == 2

(***************************************************************************)
(* build_output                                                            *)
(***************************************************************************)
VARIABLES
  self,           \* the component's input fields
  environ,        \* os.environ's REPLICATE_API_TOKEN
  pc,             \* where the invocation is
  now,            \* time.time()
  token, version, timeout, poll_interval,
  resp,           \* the creation response
  pred,           \* the last parsed body
  pred_id,
  status,
  start,
  detail,
  r,              \* the last status-fetch response
  outcome,        \* the Data returned, or the exception that escaped
  trace,          \* the requests sent and the sleeps, in order
  value,          \* _extract_text on its own: its argument
  extracted       \* ... and its result

vars == <<self, environ, pc, now, token, version, timeout, poll_interval, resp, pred,
          pred_id, status, start, detail, r, outcome, trace, value, extracted>>

locals == <<token, version, timeout, poll_interval, resp, pred, pred_id, status, start,
            detail, r>>

\* Data(value=...): the outcome's classification and its message
Data(kind, msg) == [kind |-> kind, value |-> msg]

NoData == Data("none", None)

\* an exception that leaves build_output
Escaped(exc, line) == Data("Exception", FStr(exc, <<Num(line)>>))

Posts == Len(SelectSeq(trace, LAMBDA e : e.op = "post"))

Gets == Len(SelectSeq(trace, LAMBDA e : e.op = "get"))

Sleeps == Len(SelectSeq(trace, LAMBDA e : e.op = "sleep"))

Event(op, auth, arg) == [op |-> op, auth |-> auth, arg |-> arg]

\* the token taken without strip()
ResolveToken_NoStrip(raw, env) == Or(Or(raw, Str(<<>>)), env)

\* (self.replicate_api_token or "").strip() or os.getenv("REPLICATE_API_TOKEN")
ResolveToken(raw, env) == Or(Str(Strip(Or(raw, Str(<<>>)).s)), env)

\* (self.model_version or "").strip()
ResolveVersion(raw) == Str(Strip(Or(raw, Str(<<>>)).s))

\* the status read from a field the service does not send
StatusOf_State(p) == Get(p, "state")

\* status = pred.get("status")
StatusOf(p) == Get(p, "status")

\* a failed job taken for one still running
NonTerminal_SucceededOnly(st) == st # Succeeded

\* status not in ("succeeded", "failed")
NonTerminal(st) == st # Succeeded /\ st # Failed

\* the while condition with <= for <
LoopCond_Inclusive(st, elapsed, limit) == NonTerminal(st) /\ elapsed <= limit

\* the while condition
LoopCond(st, elapsed, limit) == NonTerminal(st) /\ elapsed < limit

\* the reason with logs taken before error
Reason_LogsFirst(dt, p, st) ==
  LET err  == IF p.t = "dict" THEN Get(p, "error") ELSE None
      logs == IF p.t = "dict" THEN Get(p, "logs") ELSE None
  IN Or(dt, Or(logs, Or(err, FStr("status={status}", <<st>>))))

\* reason = detail or err or logs or f"status={status}"
Reason(dt, p, st) ==
  LET err  == IF p.t = "dict" THEN Get(p, "error") ELSE None
      logs == IF p.t = "dict" THEN Get(p, "logs") ELSE None
  IN Or(dt, Or(err, Or(logs, FStr("status={status}", <<st>>))))

\* the finalization with `if extracted is not None` for `if extracted`
FinalOutcome_NotNone(st, p, dt) ==
  IF st = Succeeded
  THEN LET output == Get(p, "output")
           text   == _extract_text(output)
       IN IF text # None THEN Data("Success", text)
          ELSE Data("NoTextExtracted",
                    FStr("Prediction succeeded but no text extracted. Raw: {output}", <<output>>))
  ELSE Data("PredictionFailed", FStr("Prediction failed: {reason}", <<Reason(dt, p, st)>>))

\* 3. Final status.  On success the Data returned is also stored in the
\* component's status field: outcome stands for both.
FinalOutcome(st, p, dt) ==
  IF st = Succeeded
  THEN LET output == Get(p, "output")
           text   == _extract_text(output)
       IN IF Truthy(text) THEN Data("Success", text)
          ELSE Data("NoTextExtracted",
                    FStr("Prediction succeeded but no text extracted. Raw: {output}", <<output>>))
  ELSE Data("PredictionFailed", FStr("Prediction failed: {reason}", <<Reason(dt, p, st)>>))

Return(d) == pc' = "done" /\ outcome' = d

\* a poll failure that goes on with the loop: `continue` for `break`
AfterPollFailure_Continue == "loop"

\* `break`: where a poll failure leaves the loop to
AfterPollFailure == "final"

Raise(exc, line) == pc' = "raised" /\ outcome' = Escaped(exc, line)

Idle == value = None /\ extracted = None

\* the invocations modelled: every token, fallback and version with one pair
\* of durations, and every pair of durations with one token and version
Init ==
  /\ \/ /\ self \in [replicate_api_token : TokenInputs, model_version : VersionInputs,
                      timeout_seconds : {Str(<<"5">>)}, poll_interval : {Str(<<"2">>)}]
        /\ environ \in EnvInputs
     \/ /\ self \in [replicate_api_token : {Str(<<" ", "t", "k">>)},
                      model_version : {Str(<<"v", "1", " ">>)},
                      timeout_seconds : TimeoutInputs, poll_interval : PollInputs]
        /\ environ = None
  /\ pc = "start"
  /\ now = 0
  /\ token = None /\ version = None /\ timeout = 0 /\ poll_interval = 0
  /\ resp = NoResp /\ pred = None /\ pred_id = None /\ status = None
  /\ start = 0 /\ detail = None /\ r = NoResp
  /\ outcome = NoData
  /\ trace = <<>>
  /\ Idle

\* the input checks and the parsing of the two durations
Validate ==
  /\ pc = "start"
  /\ token' = ResolveToken(self.replicate_api_token, environ)
  /\ IF ~Truthy(token')
     THEN /\ Return(Data("InputError", FStr("Error: No Replicate API token provided.", <<>>)))
          /\ UNCHANGED <<version, timeout, poll_interval>>
     ELSE /\ version' = ResolveVersion(self.model_version)
          /\ IF ~Truthy(version')
             THEN /\ Return(Data("InputError", FStr("Error: No model version UUID provided.", <<>>)))
                  /\ UNCHANGED <<timeout, poll_interval>>
             ELSE /\ timeout' = FloatOr(self.timeout_seconds, DefaultTimeout)
                  /\ poll_interval' = FloatOr(self.poll_interval, DefaultPollInterval)
                  /\ pc' = "create"
                  /\ UNCHANGED outcome
  /\ UNCHANGED <<self, environ, now, resp, pred, pred_id, status, start, detail, r, trace,
                 value, extracted>>

\* 1. Create prediction, and the loop's set-up
Create ==
  /\ pc = "create"
  /\ \E rsp \in CreateResponses, d \in 0..MaxDelay :
       /\ trace' = Append(trace, Event("post", token, version))
       /\ now' = now + d
       /\ resp' = rsp
       /\ IF rsp.kind = "exc"
          THEN /\ Return(Data("CreationTransportError",
                              FStr("Exception while creating prediction: {e}", <<>>)))
               /\ UNCHANGED <<pred, pred_id, status, start>>
          ELSE IF rsp.code \notin {200, 201}
          THEN /\ Return(Data("CreationRejected",
                              FStr("Error creating prediction: {resp.status_code} - {err}",
                                   <<Num(rsp.code), rsp.body>>)))
               /\ UNCHANGED <<pred, pred_id, status, start>>
          ELSE IF rsp.kind = "raw"
          THEN /\ Return(Data("CreationResponseMalformed",
                              FStr("Prediction created but JSON parse failed: {e} - raw: {resp.text}",
                                   <<rsp.body>>)))
               /\ UNCHANGED <<pred, pred_id, status, start>>
          ELSE IF rsp.body.t # "dict"
          THEN /\ Raise("AttributeError", 135)
               /\ pred' = rsp.body
               /\ UNCHANGED <<pred_id, status, start>>
          ELSE IF ~Truthy(Get(rsp.body, "id"))
          THEN /\ Return(Data("CreationResponseMalformed",
                              FStr("Prediction response missing id: {pred}", <<rsp.body>>)))
               /\ pred' = rsp.body
               /\ pred_id' = Get(rsp.body, "id")
               /\ UNCHANGED <<status, start>>
          ELSE /\ pred' = rsp.body
               /\ pred_id' = Get(rsp.body, "id")
               /\ status' = StatusOf(rsp.body)
               /\ start' = now'
               /\ pc' = "loop"
               /\ UNCHANGED outcome
  /\ UNCHANGED <<self, environ, token, version, timeout, poll_interval, detail, r,
                 value, extracted>>

\* the while condition, evaluated
LoopCheck ==
  /\ pc = "loop"
  /\ IF LoopCond(status, now - start, timeout)
     THEN Gets < MaxPolls /\ pc' = "sleep"
     ELSE pc' = "final"
  /\ UNCHANGED <<self, environ, now, locals, outcome, trace, value, extracted>>

\* the loop body going to its status-fetch without time.sleep
Sleep_NoSuspend ==
  /\ pc = "sleep"
  /\ pc' = "poll"
  /\ UNCHANGED <<self, environ, now, locals, outcome, trace, value, extracted>>

\* time.sleep(poll_interval): it raises ValueError on a negative length, and
\* sleeps the length asked for (what more time passes, passes in the calls)
Sleep ==
  /\ pc = "sleep"
  /\ IF poll_interval < 0
     THEN /\ Raise("ValueError", 146)
          /\ UNCHANGED <<now, trace>>
     ELSE /\ now' = now + poll_interval
          /\ trace' = Append(trace, Event("sleep", None, Num(poll_interval)))
          /\ pc' = "poll"
          /\ UNCHANGED outcome
  /\ UNCHANGED <<self, environ, locals, value, extracted>>

\* one status-fetch and what the loop body does with its answer
Poll ==
  /\ pc = "poll"
  /\ \E rsp \in PollResponses, d \in 0..MaxDelay :
       /\ trace' = Append(trace, Event("get", token, pred_id))
       /\ now' = now + d
       /\ r' = rsp
       /\ IF rsp.kind = "exc"
          THEN /\ detail' = FStr("Exception while polling: {e}", <<>>)
               /\ pc' = AfterPollFailure
               /\ UNCHANGED <<pred, status, outcome>>
          ELSE IF rsp.code # 200
          THEN /\ detail' = FStr("Polling error {r.status_code}: {r.text}", <<Num(rsp.code), rsp.body>>)
               /\ pc' = AfterPollFailure
               /\ UNCHANGED <<pred, status, outcome>>
          ELSE IF rsp.kind = "raw"
          THEN /\ detail' = FStr("Polling JSON error: {e} - raw: {r.text}", <<rsp.body>>)
               /\ pc' = AfterPollFailure
               /\ UNCHANGED <<pred, status, outcome>>
          ELSE IF rsp.body.t # "dict"
          THEN /\ Raise("AttributeError", 163)
               /\ pred' = rsp.body
               /\ UNCHANGED <<status, detail>>
          ELSE /\ pred' = rsp.body
               /\ status' = StatusOf(rsp.body)
               /\ pc' = "loop"
               /\ UNCHANGED <<detail, outcome>>
  /\ UNCHANGED <<self, environ, token, version, timeout, poll_interval, resp, pred_id, start,
                 value, extracted>>

\* 3. Final status
Finalize ==
  /\ pc = "final"
  /\ Return(FinalOutcome(status, pred, detail))
  /\ UNCHANGED <<self, environ, now, locals, trace, value, extracted>>

Next == Validate \/ Create \/ LoopCheck \/ Sleep \/ Poll \/ Finalize

Spec == Init /\ [][Next]_vars

(***************************************************************************)
(* _extract_text on its own: called on one value of a bounded set          *)
(***************************************************************************)
\* the longest free-text string, list and dict drawn
MaxStrLen == 2

MaxListLen == 3

MaxPairs == 3

SeqsUpTo(S, n) == UNION { [1..k -> S] : k \in 0..n }

\* sequences without repetition
Distinct(q) == \A i, j \in 1..Len(q) : i # j => q[i] # q[j]

Chars == {" ", "a", "b"}

Numbers == {0, 42, -7}

Scalars ==
  {None} \cup { Str(s) : s \in SeqsUpTo(Chars, MaxStrLen) }
         \cup { Num(n) : n \in Numbers } \cup { Bool(b) : b \in BOOLEAN }

\* the elements of the lists drawn: scalars, and lists and dicts in them
ListElems ==
  { None, Str(<<>>), Str(<<" ">>), Str(<<"a">>), Str(<<" ", "b">>), Num(0), Bool(FALSE),
    List(<<>>), List(<<Str(<<"c">>), Str(<<>>)>>),
    Dict(<<>>), Dict(<<<<"text", Str(<<" ">>)>>, <<"foo", Str(<<"d">>)>>>>) }

\* the keys and the values of the dicts drawn
Keys == {"text", "content", "caption", "foo", "zap"}

DictElems ==
  { None, Str(<<>>), Str(<<"a">>), Str(<<" ", "b">>), List(<<Str(<<>>), None>>),
    Dict(<<<<"foo", Str(<<"c">>)>>>>) }

Dicts ==
  { Dict([i \in 1..Len(ks) |-> <<ks[i], vs[i]>>]) :
      <<ks, vs>> \in { kv \in SeqsUpTo(Keys, MaxPairs) \X SeqsUpTo(DictElems, MaxPairs) :
                        Len(kv[1]) = Len(kv[2]) /\ Distinct(kv[1]) } }

OutputValues ==
  Scalars \cup { List(xs) : xs \in SeqsUpTo(ListElems, MaxListLen) } \cup Dicts

ExtractInit ==
  /\ self = [replicate_api_token |-> None, model_version |-> None,
             timeout_seconds |-> Str(<<"9", "0">>), poll_interval |-> Str(<<"2">>)]
  /\ environ = None
  /\ pc = "call"
  /\ now = 0
  /\ token = None /\ version = None /\ timeout = 0 /\ poll_interval = 0
  /\ resp = NoResp /\ pred = None /\ pred_id = None /\ status = None
  /\ start = 0 /\ detail = None /\ r = NoResp
  /\ outcome = NoData
  /\ trace = <<>>
  /\ value \in OutputValues
  /\ extracted = None

\* one call of _extract_text
Extract ==
  /\ pc = "call"
  /\ extracted' = _extract_text(value)
  /\ pc' = "returned"
  /\ UNCHANGED <<self, environ, now, locals, outcome, trace, value>>

SpecExtract == ExtractInit /\ [][Extract]_vars

(***************************************************************************)
(* Properties of _extract_text (checked under SpecExtract)                 *)
(***************************************************************************)
\* an extraction that is a non-empty string
NonEmpty(t) == t.t = "str" /\ Len(t.s) > 0

Max(S) == CHOOSE x \in S : \A y \in S : y <= x

Min(S) == CHOOSE x \in S : \A y \in S : x <= y

\* the positions of a sequence of values whose own extraction is non-empty
Yielding(xs) == { i \in 1..Len(xs) : NonEmpty(_extract_text(xs[i])) }

\* C9: for a list, _extract_text returns the extraction of the last element
\* whose own extraction is non-empty, whatever the earlier elements are, and
\* None when no element has one; the elements may be lists and dicts.
C9_LastNonEmptyElement ==
  (pc = "returned" /\ value.t = "list") =>
     IF Yielding(value.items) = {} THEN extracted = None
     ELSE extracted = _extract_text(value.items[Max(Yielding(value.items))])

\* a list whose last element is empty, whose element before it is a dict that
\* yields text, and which holds an earlier non-empty element with another text
C9_Witness ==
  /\ pc = "returned" /\ value.t = "list" /\ Len(value.items) = 3
  /\ value.items[1] = Str(<<"a">>)
  /\ value.items[2].t = "dict" /\ _extract_text(value.items[2]) = Str(<<"d">>)
  /\ value.items[3] = Str(<<" ">>)
  /\ extracted = Str(<<"d">>)

\* the order of the keys as the claim states it
C10_Order == <<"generated_text", "text", "content", "output", "caption">>

\* the places in C10_Order of the keys present in d whose extraction is non-empty
C10_YieldingKeys(d) ==
  { i \in 1..Len(C10_Order) :
      HasKey(d, C10_Order[i]) /\ NonEmpty(_extract_text(Item(d, C10_Order[i]))) }

\* C10: for a dict, _extract_text returns the extraction of the first key of
\* generated_text, text, content, output, caption (in that order, whatever
\* the dict's own order) that is present and yields a non-empty extraction;
\* only when none does, the first non-empty extraction among all the values
\* in the dict's own order.
C10_PriorityKeysThenValues ==
  (pc = "returned" /\ value.t = "dict") =>
     IF C10_YieldingKeys(value) # {}
     THEN extracted = _extract_text(Item(value, C10_Order[Min(C10_YieldingKeys(value))]))
     ELSE Yielding(Values(value)) # {} =>
            extracted = _extract_text(Values(value)[Min(Yielding(Values(value)))])

\* a dict that holds caption before text, both with text, and before them a
\* content that is present and empty: text wins
C10_Witness ==
  /\ pc = "returned" /\ value.t = "dict" /\ Len(value.pairs) = 3
  /\ value.pairs[1] = <<"content", Str(<<>>)>>
  /\ value.pairs[2] = <<"caption", Str(<<"a">>)>>
  /\ value.pairs[3] = <<"text", Str(<<" ", "b">>)>>
  /\ extracted = Str(<<"b">>)

(***************************************************************************)
(* Properties of build_output (checked under Spec)                         *)
(***************************************************************************)
\* the creation step gave a job identifier and the invocation has returned
\* from the finalization
Finalized == pc = "done" /\ Truthy(pred_id)

\* the line an escaped exception was raised at
RaisedAt == outcome.value.args[1].n

\* the body of the most recent response received
LastBody == IF Gets > 0 THEN r.body ELSE resp.body

\* C1: every invocation ends by returning a classified outcome; no exception
\* leaves build_output, whatever the service answers and whatever the raw
\* durations are.
C1_NoExceptionEscapes == pc # "raised" /\ outcome.kind # "Exception"

\* the polling loop has been left: by its condition, by break, or by an
\* exception raised in its body
LoopLeft ==
  \/ pc = "final"
  \/ Finalized
  \/ pc = "raised" /\ RaisedAt \in {146, 163}

\* C2: the polling loop is left only because the last-known state is
\* terminal, or the elapsed time is no longer below the timeout at a loop
\* check, or a poll failure was recorded; a status-fetch is issued only after
\* a loop check that found the state non-terminal and the elapsed time below
\* the timeout; and once a terminal state is known no status-fetch is issued.
C2_LoopExitReasons ==
  /\ [](LoopLeft => (~NonTerminal(status) \/ now - start >= timeout \/ detail # None))
  /\ [](pc = "sleep" => (NonTerminal(status) /\ now - start < timeout))
  /\ [](pc = "poll" => NonTerminal(status))
  /\ [][Gets' > Gets => pc = "poll"]_vars
  /\ [][(pc \notin {"start", "create"} /\ ~NonTerminal(status)) => Gets' = Gets]_vars

\* C3: after a status-fetch that ends in a transport failure, a non-200
\* status or an unparseable body, no request is sent and nothing is slept,
\* and the invocation returns PredictionFailed with that failure as reason.
C3_NoRetryAfterPollFailure ==
  /\ [](detail # None => pc \in {"final", "done"})
  /\ [](detail # None /\ pc = "done" =>
          outcome = Data("PredictionFailed", FStr("Prediction failed: {reason}", <<detail>>)))
  /\ [][detail # None => trace' = trace]_vars

\* the second status-fetch failed after a first one that found the job running
C3_Witness ==
  /\ pc = "done" /\ detail # None /\ Gets = 2 /\ Posts = 1
  /\ r.kind = "exc" /\ status = Processing
  /\ outcome.kind = "PredictionFailed"

\* None, or a string that is empty once its whitespace is trimmed
Blank(v) == v = None \/ (v.t = "str" /\ \A i \in 1..Len(v.s) : v.s[i] \in Whitespace)

\* C4: with credentials empty after trimming and no environment fallback, or
\* with a model identifier empty after trimming, the invocation returns an
\* InputError and sends no request.
C4_InputErrorWithoutNetwork ==
  (/\ pc # "start"
   /\ \/ Blank(self.replicate_api_token) /\ environ = None
      \/ Blank(self.model_version))
  => (pc = "done" /\ outcome.kind = "InputError" /\ trace = <<>>)

\* a whitespace-only token with no fallback, and a good model identifier
C4_Witness ==
  /\ pc = "done" /\ outcome.kind = "InputError" /\ trace = <<>>
  /\ self.replicate_api_token = Str(<<" ">>) /\ environ = None
  /\ ~Blank(self.model_version)

\* the creation response gave no job identifier
NoJobId ==
  \/ resp.kind \in {"exc", "raw"}
  \/ resp.code \notin {200, 201}
  \/ resp.body.t # "dict"
  \/ ~HasKey(resp.body, "id")
  \/ ~Truthy(Item(resp.body, "id"))

\* C5: when the creation step yields no job identifier the invocation returns
\* the matching creation failure and sends no status-fetch: a transport
\* failure gives CreationTransportError, a status code outside {200, 201}
\* CreationRejected with the status code and the error body, a successful
\* status with an unparseable body or a body without a job identifier
\* CreationResponseMalformed.
C5_CreationFailures ==
  (resp # NoResp /\ NoJobId) =>
    /\ pc = "done"
    /\ Gets = 0
    /\ outcome.kind =
         IF resp.kind = "exc" THEN "CreationTransportError"
         ELSE IF resp.code \notin {200, 201} THEN "CreationRejected"
         ELSE "CreationResponseMalformed"
    /\ outcome.kind = "CreationRejected" => outcome.value.args = <<Num(resp.code), resp.body>>

\* the reason of a PredictionFailed outcome
ReasonGiven == outcome.value.args[1]

\* C6: when the final state is "succeeded" the outcome is decided by the
\* extraction of the `output` field of the most recent response alone: a
\* non-empty extraction is the success result, exactly; no extraction or an
\* empty one gives NoTextExtracted with the raw output.  A success never
\* carries an empty text.
C6_SucceededOutcome ==
  /\ (Finalized /\ status = Succeeded) =>
        /\ LET output == Get(LastBody, "output")
           IN IF NonEmpty(_extract_text(output))
              THEN outcome = Data("Success", _extract_text(output))
              ELSE /\ outcome.kind = "NoTextExtracted"
                   /\ outcome.value.args = <<output>>
  /\ outcome.kind = "Success" => NonEmpty(outcome.value)

\* creation answers "starting", the first status-fetch "succeeded" with the
\* output ["partial", "final answer"]: success with "final answer"
C6_Witness ==
  /\ pc = "done" /\ Gets = 1
  /\ Get(resp.body, "status") = Starting
  /\ r.body = Body(None, Succeeded, List(<<Str(<<"partial">>), Str(<<"final answer">>)>>), None, None)
  /\ outcome = Data("Success", Str(<<"final answer">>))

\* the fallback reason, naming the last-known state
StateFallback == FStr("status={status}", <<status>>)

\* the reason in the priority order: the poll-failure detail, the error of
\* the last body when it has one, its logs when it has some, the fallback.
\* A field that is absent or empty counts as none.
ReasonInOrder ==
  IF detail # None THEN detail
  ELSE IF Truthy(Get(LastBody, "error")) THEN Get(LastBody, "error")
  ELSE IF Truthy(Get(LastBody, "logs")) THEN Get(LastBody, "logs")
  ELSE StateFallback

\* C7: when the final state is not "succeeded" the outcome is PredictionFailed
\* and its reason is the poll-failure detail if any, otherwise the error
\* field of the last received response, otherwise its logs field, otherwise
\* a string naming the last-known state.
C7_FailureReasonPriority ==
  (Finalized /\ status # Succeeded) =>
     /\ outcome.kind = "PredictionFailed"
     /\ ReasonGiven = ReasonInOrder

\* a failed job whose body carries an empty error and some logs: the logs
\* are the reason
C7_Witness ==
  /\ Finalized /\ status = Failed /\ detail = None /\ Gets = 1
  /\ Get(r.body, "error") = Str(<<>>)
  /\ Get(r.body, "logs") = Str(<<"loading weights">>)
  /\ ReasonGiven = Str(<<"loading weights">>)

\* ceil(t / p) for positive t and p
Ceil(t, p) == (t + p - 1) \div p

\* the last status-fetch was answered 200 with a mapping
PollParsed == r.kind = "json" /\ r.code = 200 /\ r.body.t = "dict"

\* what C8 says of the poll count and of the state after the one attempt
C8_CountAndState ==
  /\ (timeout = 5 /\ poll_interval = 10) =>
       /\ Gets <= 1
       /\ (Finalized /\ Gets = 1 /\ PollParsed) => status = Get(r.body, "status")
       /\ (Finalized /\ status = Succeeded) => outcome.kind \in {"Success", "NoTextExtracted"}
  /\ (pc # "start" /\ timeout > 0 /\ poll_interval > 0) => Gets <= Ceil(timeout, poll_interval)

\* C8 as stated: with a timeout of 5 and a poll interval of 10 there is at
\* most one status-fetch, the final state is what that attempt returned (a
\* succeeded answer is honoured), and a still-pending state gives
\* PredictionFailed with the fallback reason naming the last-known state;
\* for positive T and P there are at most ceil(T / P) status-fetches.
C8_Original ==
  /\ C8_CountAndState
  /\ (timeout = 5 /\ poll_interval = 10 /\ Finalized /\ NonTerminal(status) /\ detail = None) =>
       outcome = Data("PredictionFailed", FStr("Prediction failed: {reason}", <<StateFallback>>))

\* C8 as amended: the same, but the reason of a still-pending final state is
\* taken in the priority order (the poll-failure detail, the non-empty error
\* of the last body, its non-empty logs) and is the fallback only when the
\* last body carries neither.
C8_Amended ==
  /\ C8_CountAndState
  /\ (timeout = 5 /\ poll_interval = 10 /\ Finalized /\ NonTerminal(status)) =>
       /\ outcome.kind = "PredictionFailed"
       /\ ReasonGiven = ReasonInOrder
       /\ (detail = None /\ ~Truthy(Get(LastBody, "error")) /\ ~Truthy(Get(LastBody, "logs")))
             => ReasonGiven = StateFallback

\* timeout 5, interval 10: the one status-fetch finds the job still running,
\* with logs; the budget is spent and the reason given is the logs
C8_Witness ==
  /\ Finalized /\ timeout = 5 /\ poll_interval = 10 /\ Gets = 1
  /\ now - start >= 10
  /\ status = Processing /\ detail = None
  /\ ReasonGiven = Str(<<"loading weights">>)

(***************************************************************************)
(* Further properties of _extract_text (checked under SpecExtract)         *)
(***************************************************************************)
\* C11: for a dict in which neither a priority key nor any value yields a
\* non-empty extraction (the empty dict, a dict whose values are all None or
\* empty strings), _extract_text returns None, so that a succeeded job with
\* such an output ends in NoTextExtracted.
C11_BarrenDictIsAbsent ==
  (/\ pc = "returned" /\ value.t = "dict"
   /\ C10_YieldingKeys(value) = {}
   /\ Yielding(Values(value)) = {})
  => extracted = None

\* t is s without its leading and trailing whitespace
IsTrimOf(t, s) ==
  /\ \E i \in 1..(Len(s) + 1), j \in 0..Len(s) :
       /\ t = SubSeq(s, i, j)
       /\ \A k \in 1..Len(s) : (k < i \/ k > j) => s[k] \in Whitespace
  /\ t # <<>> => (t[1] \notin Whitespace /\ t[Len(t)] \notin Whitespace)

\* t is the decimal representation of n: digits that give n back, a minus
\* sign for a negative n, no leading zero
IsDecimalOf(t, n) ==
  LET d == IF n < 0 THEN Tail(t) ELSE t
  IN /\ t # <<>>
     /\ n < 0 <=> t[1] = "-"
     /\ IsDigits(d)
     /\ Len(d) > 1 => d[1] # "0"
     /\ DigitsVal(d) = (IF n < 0 THEN 0 - n ELSE n)

\* what C12 says of None, strings and numbers
C12_NonBoolScalars ==
  /\ (pc = "returned" /\ value.t = "None") => extracted = None
  /\ (pc = "returned" /\ value.t = "str") =>
        (extracted.t = "str" /\ IsTrimOf(extracted.s, value.s))
  /\ (pc = "returned" /\ value.t = "int") =>
        (extracted.t = "str" /\ IsDecimalOf(extracted.s, value.n))
  /\ (pc = "returned" /\ value = Num(42)) => extracted = Str(<<"4", "2">>)

Validated == pc # "start" /\ outcome.kind # "InputError"

\* C13: the bearer token of every request is non-empty after trimming: it is
\* the supplied value, trimmed, when that is non-empty, otherwise the
\* environment's value; when neither is non-empty after trimming no request
\* is sent and the outcome is an InputError.
C13_TokenNonBlank ==
  /\ \A i \in 1..Len(trace) :
       trace[i].op \in {"post", "get"} =>
         /\ ~Blank(trace[i].auth)
         /\ IF ~Blank(self.replicate_api_token)
            THEN IsTrimOf(trace[i].auth.s, self.replicate_api_token.s)
            ELSE trace[i].auth = environ
  /\ (pc # "start" /\ Blank(self.replicate_api_token) /\ Blank(environ)) =>
       (pc = "done" /\ outcome.kind = "InputError" /\ trace = <<>>)

\* the numbers a raw duration stands for: those its trimmed text is the
\* decimal representation of
ParsedValues(raw) ==
  IF raw.t # "str" THEN {}
  ELSE {n \in (0 - 99)..99 :
          \E i \in 1..(Len(raw.s) + 1), j \in 0..Len(raw.s) :
             /\ IsTrimOf(SubSeq(raw.s, i, j), raw.s)
             /\ IsDecimalOf(SubSeq(raw.s, i, j), n)}

\* the duration expected of a raw value: its number, the default when it
\* stands for none
ExpectedDuration(raw, default) ==
  IF ParsedValues(raw) = {} THEN default ELSE CHOOSE n \in ParsedValues(raw) : TRUE

\* C14: a raw timeout or poll interval that does not parse never fails the
\* invocation: the timeout becomes 90 and the poll interval 2, each on its
\* own, and the invocation goes on to the creation step; a raw value that
\* parses is used as it is.
C14_UnparseableFallsBack ==
  /\ [](pc = "create" =>
          /\ timeout = ExpectedDuration(self.timeout_seconds, 90)
          /\ poll_interval = ExpectedDuration(self.poll_interval, 2))
  /\ [][(pc # "start") =>
          (timeout' = timeout /\ poll_interval' = poll_interval /\ self' = self)]_vars
  /\ [][(/\ pc = "start"
         /\ ~Blank(self.replicate_api_token) \/ ~Blank(environ)
         /\ ~Blank(self.model_version))
        => (pc' = "create" /\ outcome' = outcome /\ trace' = trace)]_vars

\* a timeout that does not parse beside a poll interval that does: the
\* creation step is reached with 90 and 10
C14_Witness ==
  /\ pc = "create"
  /\ self.timeout_seconds = Str(<<"s", "o", "o", "n">>)
  /\ self.poll_interval = Str(<<" ", "1", "0">>)
  /\ timeout = 90 /\ poll_interval = 10

\* C15: the timeout and the poll interval the polling loop works with are
\* positive, whatever the raw values are.
C15_PositiveDurations ==
  pc \in {"loop", "sleep", "poll"} => (timeout > 0 /\ poll_interval > 0)

\* the invocation is in the polling loop or past it, with a job identifier
AfterCreation == pc \in {"loop", "sleep", "poll", "final"} \/ Finalized

\* the `status` field of a body, None when it has none
StatusField(b) == IF HasKey(b, "status") THEN Item(b, "status") ELSE None

\* C16: after a successful creation step the last-known state is the
\* `status` field of the most recent body parsed: the creation response's
\* until a status-fetch is answered 200 with a body that parses, that
\* answer's from then on.  A failed status-fetch changes neither the state
\* nor the body kept, so what the finalization reads (output, error, logs)
\* comes from the response the final state came from.  A body without a
\* status field leaves the state non-terminal.
C16_StateFromLatestBody ==
  /\ [](AfterCreation =>
          /\ pred.t = "dict"
          /\ status = StatusField(pred)
          /\ Gets = 0 => pred = resp.body
          /\ ~HasKey(pred, "status") => status \notin {Succeeded, Failed}
          /\ (Finalized /\ outcome.kind = "Success") =>
                outcome.value = _extract_text(Get(pred, "output"))
          /\ (Finalized /\ outcome.kind = "NoTextExtracted") =>
                outcome.value.args = <<Get(pred, "output")>>
          /\ (Finalized /\ outcome.kind = "PredictionFailed" /\ detail = None) =>
                ReasonGiven \in {Get(pred, "error"), Get(pred, "logs"),
                                 FStr("status={status}", <<StatusField(pred)>>)})
  /\ [][(pc = "poll" /\ pc' = "loop") =>
          (r'.kind = "json" /\ r'.code = 200 /\ pred' = r'.body)]_vars
  /\ [][(pc = "poll" /\ detail' # None) => (pred' = pred /\ status' = status)]_vars
  /\ [][(pc \in {"loop", "sleep", "final"}) => (pred' = pred /\ status' = status)]_vars

\* the creation response said "starting", the first status-fetch
\* "processing" with logs, the second failed: the state and the logs of the
\* first answer are what the finalization used
C16_Witness ==
  /\ Finalized /\ Gets = 2 /\ r.kind = "exc"
  /\ StatusField(resp.body) = Starting
  /\ status = Processing
  /\ pred = Body(None, Processing, None, None, Str(<<"loading weights">>))
  /\ ReasonGiven = detail

\* C17: the events of an invocation are, in order: at most one creation
\* request, the first event; then suspensions and status-fetches in turn,
\* every status-fetch being for the job identifier the creation response
\* gave and coming right after one suspension of the poll interval.  No
\* creation request follows a status-fetch, no two status-fetches follow
\* each other.
C17_RequestOrder ==
  \A i \in 1..Len(trace) :
    /\ trace[i].op = "post" <=> i = 1
    /\ i > 1 =>
         /\ trace[i].op = (IF i % 2 = 0 THEN "sleep" ELSE "get")
         /\ trace[i].op = "sleep" => trace[i].arg = Num(poll_interval)
         /\ trace[i].op = "get" =>
              /\ trace[i].arg = Item(resp.body, "id")
              /\ trace[i - 1].op = "sleep"

\* a creation request, then twice a suspension and a status-fetch
C17_Witness ==
  /\ pc = "done" /\ Len(trace) = 5
  /\ trace[1].op = "post"
  /\ trace[2].op = "sleep" /\ trace[3].op = "get"
  /\ trace[4].op = "sleep" /\ trace[5].op = "get"
  /\ trace[5].arg = Str(<<"abc">>)

\* the creation response carries a job identifier and a terminal status
TerminalAtCreation ==
  /\ resp.kind = "json" /\ resp.code \in {200, 201} /\ resp.body.t = "dict"
  /\ HasKey(resp.body, "id") /\ Item(resp.body, "id") # Str(<<>>)
  /\ StatusField(resp.body) \in {Succeeded, Failed}

\* C18: when the creation response already reports a terminal state there is
\* no suspension and no status-fetch, and the finalization works on the
\* creation response's body: "succeeded" gives the extraction of its output,
\* "failed" gives PredictionFailed with its error, else its logs, else the
\* state as reason.
C18_TerminalAtCreation ==
  TerminalAtCreation =>
    /\ Len(trace) = 1 /\ trace[1].op = "post"
    /\ pc \in {"loop", "final", "done"}
    /\ pc = "done" =>
         IF StatusField(resp.body) = Succeeded
         THEN LET output == Get(resp.body, "output")
              IN IF NonEmpty(_extract_text(output))
                 THEN outcome = Data("Success", _extract_text(output))
                 ELSE outcome.kind = "NoTextExtracted" /\ outcome.value.args = <<output>>
         ELSE /\ outcome.kind = "PredictionFailed"
              /\ ReasonGiven =
                   (IF Truthy(Get(resp.body, "error")) THEN Get(resp.body, "error")
                    ELSE IF Truthy(Get(resp.body, "logs")) THEN Get(resp.body, "logs")
                    ELSE FStr("status={status}", <<Failed>>))

\* the creation response says "failed" with an error: PredictionFailed with
\* that error, after the creation request alone
C18_Witness ==
  /\ pc = "done" /\ TerminalAtCreation
  /\ StatusField(resp.body) = Failed
  /\ trace = <<Event("post", token, version)>>
  /\ ReasonGiven = Str(<<"out of memory">>)

\* the status-fetches a timeout leaves room for when every loop iteration
\* takes the poll interval at least
PollBound == IF timeout <= 0 THEN 0 ELSE Ceil(timeout, poll_interval)

\* C19: every invocation returns an outcome in the end: with network calls
\* that return and a clock that advances by the positive poll interval at
\* least in each loop iteration, the polling loop is left after finitely many
\* status-fetches (no more than the timeout leaves room for) even when the
\* service never reports a terminal state, and the finalization returns.
\* Stated on finite runs: short of its return the invocation always has a
\* next step, and its status-fetches stay within the bound.
C19_EventuallyReturns ==
  (Validated /\ poll_interval > 0 /\ PollBound <= MaxPolls) =>
    /\ pc = "done" \/ ENABLED Next
    /\ Gets <= PollBound

====
